---- MODULE Spec2Model ----
(***************************************************************************)
(* Difficulty retargeting and proof verification of ion (src/src/pow.cpp). *)
(*                                                                         *)
(* The chain index is a sequence of block summaries: chain[h + 1] is the   *)
(* block at height h, its pprev is chain[h] (absent for the genesis block).*)
(* A CBlockIndex pointer is a height, the null pointer is NULLPTR.         *)
(* A 256-bit target (arith_uint256) is a little-endian sequence of WIDTH   *)
(* bytes; a packed target (nBits) is the integer nSize * 2^24 + mantissa.  *)
(***************************************************************************)
EXTENDS Integers, Sequences, FiniteSets, TLC

VARIABLES params, chain, call

vars == <<params, chain, call>>

\* The null CBlockIndex pointer.
NULLPTR == 0 - 1

(***************************************************************************)
(* arith_uint256: 256-bit unsigned arithmetic, byte by byte.               *)
(***************************************************************************)

\* Number of bytes of an arith_uint256.
WIDTH == 32

Min(a, b) == IF a < b THEN a ELSE b

Max(a, b) == IF a > b THEN a ELSE b

\* C++ integer division truncates toward zero (b # 0).
CDiv(a, b) ==
    LET q == (IF a < 0 THEN 0 - a ELSE a) \div (IF b < 0 THEN 0 - b ELSE b)
    IN  IF (a < 0) = (b < 0) THEN q ELSE 0 - q

RECURSIVE Pow256(_)
Pow256(n) == IF n = 0 THEN 1 ELSE 256 * Pow256(n - 1)

\* The bytes of f as a sequence of WIDTH values.
Bytes(f) == SubSeq(f, 1, WIDTH)

\* arith_uint256(uint64_t b), for 0 <= b < 2^31.
U256(n) == Bytes([i \in 1..WIDTH |-> IF i <= 4 THEN (n \div Pow256(i - 1)) % 256 ELSE 0])

\* Number of significant bytes: (bits() + 7) / 8.
RECURSIVE ByteLenFrom(_, _)
ByteLenFrom(a, i) == IF i = 0 THEN 0 ELSE IF a[i] # 0 THEN i ELSE ByteLenFrom(a, i - 1)

ByteLen(a) == ByteLenFrom(a, WIDTH)

IsZero(a) == ByteLen(a) = 0

\* CompareTo: -1, 0 or 1.
RECURSIVE CompareFrom(_, _, _)
CompareFrom(a, b, i) ==
    IF i = 0 THEN 0
    ELSE IF a[i] < b[i] THEN 0 - 1
    ELSE IF a[i] > b[i] THEN 1
    ELSE CompareFrom(a, b, i - 1)

CompareTo(a, b) == CompareFrom(a, b, WIDTH)

Gt(a, b) == CompareTo(a, b) = 1

Le(a, b) == CompareTo(a, b) # 1

\* operator*=(uint32_t): the carry out of the top byte is dropped.
RECURSIVE MulFrom(_, _, _, _)
MulFrom(a, s, i, carry) ==
    IF i > WIDTH THEN <<>>
    ELSE LET v == a[i] * s + carry
         IN  <<v % 256>> \o MulFrom(a, s, i + 1, v \div 256)

MulSmall(a, s) == MulFrom(a, s, 1, 0)

\* operator+=: the carry out of the top byte is dropped.
RECURSIVE AddFrom(_, _, _, _)
AddFrom(a, b, i, carry) ==
    IF i > WIDTH THEN <<>>
    ELSE LET v == a[i] + b[i] + carry
         IN  <<v % 256>> \o AddFrom(a, b, i + 1, v \div 256)

Add(a, b) == AddFrom(a, b, 1, 0)

\* operator/= by a divisor 0 < d < 2^23: long division from the top byte, the
\* quotient's bytes most significant first.
RECURSIVE DivFrom(_, _, _, _)
DivFrom(a, d, i, rem) ==
    IF i = 0 THEN <<>>
    ELSE LET cur == rem * 256 + a[i]
         IN  <<cur \div d>> \o DivFrom(a, d, i - 1, cur % d)

DivSmall(a, d) ==
    LET q == DivFrom(a, d, WIDTH, 0)
    IN  Bytes([i \in 1..WIDTH |-> q[WIDTH + 1 - i]])

\* operator<<= by whole bytes: bytes shifted past the top are dropped.
ShiftLeftBytes(a, n) == Bytes([i \in 1..WIDTH |-> IF i - n >= 1 THEN a[i - n] ELSE 0])

\* operator>>= by whole bytes.
ShiftRightBytes(a, n) ==
    Bytes([i \in 1..WIDTH |-> IF i + n <= WIDTH THEN a[i + n] ELSE 0])

\* GetLow64 of a value known to fit in 3 bytes.
Low24(a) == a[1] + 256 * a[2] + 65536 * a[3]

(***************************************************************************)
(* The compact target codec (arith_uint256::SetCompact / GetCompact).      *)
(***************************************************************************)

\* 2^24 and 2^23: the exponent's position and the mantissa's sign bit.
SizeUnit == 16777216

SignBit == 8388608

Compact(nSize, nWord) == nSize * SizeUnit + nWord

\* SetCompact(nCompact, &fNegative, &fOverflow).
SetCompact(nCompact) ==
    LET nSize == nCompact \div SizeUnit
        nWord0 == nCompact % SignBit
        nWord == IF nSize <= 3 THEN nWord0 \div Pow256(3 - nSize) ELSE nWord0
        val == IF nSize <= 3 THEN U256(nWord)
               ELSE ShiftLeftBytes(U256(nWord), nSize - 3)
    IN  [val |-> val,
         fNegative |-> nWord # 0 /\ (nCompact \div SignBit) % 2 = 1,
         fOverflow |-> nWord # 0 /\ (\/ nSize > 34
                                     \/ (nWord > 255 /\ nSize > 33)
                                     \/ (nWord > 65535 /\ nSize > 32))]

\* arith_uint256().SetCompact(nBits): the decoded value, flags ignored.
Decode(nCompact) == SetCompact(nCompact).val

\* GetCompact(): the minimal exponent whose mantissa has no sign ambiguity.
GetCompact(a) ==
    LET nSize == ByteLen(a)
        nWord == IF nSize <= 3 THEN Low24(a) * Pow256(3 - nSize)
                 ELSE Low24(ShiftRightBytes(a, nSize - 3))
    IN  IF nWord >= SignBit THEN Compact(nSize + 1, nWord \div 256)
        ELSE Compact(nSize, nWord)

(***************************************************************************)
(* The chain index and the consensus parameters.                           *)
(***************************************************************************)

\* A target ceiling: zeroBytes zero bytes, then topByte, then 0xff bytes
\* (uint256S("00000fff...ff") is Ceiling(2, 15)).
Ceiling(zeroBytes, topByte) ==
    Bytes([i \in 1..WIDTH |-> IF i > WIDTH - zeroBytes THEN 0
                              ELSE IF i = WIDTH - zeroBytes THEN topByte
                              ELSE 255])

\* UintToArith256 of a ceiling, which the parameters hold as
\* [zeroBytes, topByte].
UintToArith256(u) == Ceiling(u.zeroBytes, u.topByte)

Limit(zeroBytes, topByte) == [zeroBytes |-> zeroBytes, topByte |-> topByte]

Tip == Len(chain) - 1

\* CBlockIndex fields of the block at height h.
GetBlockTime(h) == chain[h + 1].nTime

NBits(h) == chain[h + 1].nBits

\* (nVersion & BLOCKTYPEBITS_MASK) == BlockTypeBits::BLOCKTYPE_STAKING
IsStaking(h) == chain[h + 1].fStake

\* pindex->pprev
Pprev(h) == IF h = NULLPTR \/ h = 0 THEN NULLPTR ELSE h - 1

\* Params().GenesisBlock().nTime
GenesisTime == chain[1].nTime

(***************************************************************************)
(* GetHybridPrevIndex                                                      *)
(***************************************************************************)

RECURSIVE GetHybridPrevIndex(_, _, _)
\* Mutant: the height floor is tested after the type, so a matching block
\* below nMinHeight is returned.
GetHybridPrevIndexNoFloor(pindex, fPos, nMinHeight) ==
    IF pindex = NULLPTR \/ Pprev(pindex) = NULLPTR
    THEN NULLPTR
    ELSE IF IsStaking(Pprev(pindex)) = fPos
    THEN Pprev(pindex)
    ELSE IF Pprev(pindex) < nMinHeight
    THEN NULLPTR
    ELSE GetHybridPrevIndex(Pprev(pindex), fPos, nMinHeight)

GetHybridPrevIndex(pindex, fPos, nMinHeight) ==
    IF pindex = NULLPTR \/ Pprev(pindex) = NULLPTR \/ Pprev(pindex) < nMinHeight
    THEN NULLPTR
    ELSE IF IsStaking(Pprev(pindex)) = fPos
    THEN Pprev(pindex)
    ELSE GetHybridPrevIndex(Pprev(pindex), fPos, nMinHeight)

(***************************************************************************)
(* HybridPoWDarkGravityWave                                                *)
(***************************************************************************)

nPastBlocks == 24

\* The loop of lines 65-81 from the state st = [pindex, nCountBlocks,
\* bnPastTargetAvg] before an iteration: the running average and the last block
\* read, or ok = FALSE when the walker runs out of PoW blocks above
\* POSPOWStartHeight.
RECURSIVE HybridWindow(_)
\* Mutant: the window steps to the physical predecessor, of whatever type.
HybridWindowPhysical(st) ==
    LET bnTarget == Decode(NBits(st.pindex))
        avg == IF st.nCountBlocks = 1 THEN bnTarget
               ELSE DivSmall(Add(MulSmall(st.bnPastTargetAvg, st.nCountBlocks), bnTarget),
                             st.nCountBlocks + 1)
        p == Pprev(st.pindex)
    IN  IF st.nCountBlocks = nPastBlocks
        THEN [ok |-> TRUE, pindex |-> st.pindex, avg |-> avg]
        ELSE IF p = NULLPTR \/ p <= params.POSPOWStartHeight
        THEN [ok |-> FALSE, pindex |-> p, avg |-> avg]
        ELSE HybridWindow([pindex |-> p, nCountBlocks |-> st.nCountBlocks + 1,
                           bnPastTargetAvg |-> avg])

HybridWindow(st) ==
    LET bnTarget == Decode(NBits(st.pindex))
        avg == IF st.nCountBlocks = 1 THEN bnTarget
               ELSE DivSmall(Add(MulSmall(st.bnPastTargetAvg, st.nCountBlocks), bnTarget),
                             st.nCountBlocks + 1)
        p == GetHybridPrevIndex(st.pindex, FALSE, params.POSPOWStartHeight)
    IN  IF st.nCountBlocks = nPastBlocks
        THEN [ok |-> TRUE, pindex |-> st.pindex, avg |-> avg]
        ELSE IF p = NULLPTR \/ p <= params.POSPOWStartHeight
        THEN [ok |-> FALSE, pindex |-> p, avg |-> avg]
        ELSE HybridWindow([pindex |-> p, nCountBlocks |-> st.nCountBlocks + 1,
                           bnPastTargetAvg |-> avg])

HybridPoWDarkGravityWave(pindexLastIn) ==
    LET bnPowLimit == UintToArith256(params.hybridPowLimit)
        pindexLast == IF IsStaking(pindexLastIn)
                      THEN GetHybridPrevIndex(pindexLastIn, FALSE, params.POSPOWStartHeight)
                      ELSE pindexLastIn
        pindexPrev == GetHybridPrevIndex(pindexLast, FALSE, params.POSPOWStartHeight)
        w == HybridWindow([pindex |-> pindexLast, nCountBlocks |-> 1,
                           bnPastTargetAvg |-> U256(0)])
        nTargetTimespan == nPastBlocks * params.nHybridPowTargetSpacing
        nActualTimespan == Min(Max(GetBlockTime(pindexLast) - GetBlockTime(w.pindex),
                                   CDiv(nTargetTimespan, 4)),
                               nTargetTimespan * 4)
        bnNew == DivSmall(MulSmall(w.avg, nActualTimespan), nTargetTimespan)
        bnEased == MulSmall(Decode(NBits(pindexLast)), 10)
    IN  IF pindexLast = NULLPTR \/ pindexLast < params.POSPOWStartHeight + nPastBlocks
        THEN [nBits |-> GetCompact(bnPowLimit), path |-> "ceiling"]
        ELSE IF params.fPowAllowMinDifficultyBlocks /\ pindexPrev = NULLPTR
        THEN [nBits |-> GetCompact(bnPowLimit), path |-> "ceiling"]
        ELSE IF /\ params.fPowAllowMinDifficultyBlocks
                /\ GetBlockTime(pindexLast) > GetBlockTime(pindexPrev) + 2 * 60 * 60
        THEN [nBits |-> GetCompact(bnPowLimit), path |-> "min_difficulty"]
        ELSE IF /\ params.fPowAllowMinDifficultyBlocks
                /\ GetBlockTime(pindexLast) >
                       GetBlockTime(pindexPrev) + params.nPowTargetSpacing * 4
        THEN [nBits |-> GetCompact(IF Gt(bnEased, bnPowLimit) THEN bnPowLimit ELSE bnEased),
              path |-> "eased"]
        ELSE IF ~w.ok
        THEN [nBits |-> GetCompact(bnPowLimit), path |-> "ceiling"]
        ELSE [nBits |-> GetCompact(IF Gt(bnNew, bnPowLimit) THEN bnPowLimit ELSE bnNew),
              path |-> "windowed"]

(***************************************************************************)
(* HybridPoSPIVXDifficulty                                                 *)
(***************************************************************************)

\* The ppcoin retarget shared by lines 119-142, 168-190 and 195-217:
\* bnNew = old * ((nInterval - 1) * nTargetSpacing + 2 * nActualSpacing)
\*             / ((nInterval + 1) * nTargetSpacing), reset to the ceiling when it
\* is zero or above the ceiling.
PpcoinRetarget(nBitsOld, nActualSpacingIn, nInterval, nTargetSpacing, bnTargetLimit) ==
    LET nActualSpacing == IF nActualSpacingIn < 0 THEN 1 ELSE nActualSpacingIn
        bnNew == DivSmall(MulSmall(Decode(nBitsOld),
                                   (nInterval - 1) * nTargetSpacing
                                       + nActualSpacing + nActualSpacing),
                          (nInterval + 1) * nTargetSpacing)
    IN  GetCompact(IF IsZero(bnNew) \/ Gt(bnNew, bnTargetLimit) THEN bnTargetLimit
                   ELSE bnNew)

HybridPoSPIVXDifficulty(pindexLastIn) ==
    LET pindexLast == IF IsStaking(pindexLastIn) THEN pindexLastIn
                      ELSE GetHybridPrevIndex(pindexLastIn, TRUE, params.POSPOWStartHeight)
        pindexPrev == GetHybridPrevIndex(pindexLast, TRUE, params.POSPOWStartHeight)
        nActualSpacing == IF pindexPrev # NULLPTR
                          THEN GetBlockTime(pindexLast) - GetBlockTime(pindexPrev)
                          ELSE 0
    IN  IF pindexLast = NULLPTR \/ pindexLast <= params.POSPOWStartHeight
        THEN [nBits |-> GetCompact(UintToArith256(params.posLimit)), path |-> "ceiling"]
        ELSE IF params.fPowNoRetargeting
        THEN [nBits |-> NBits(pindexLast), path |-> "no_retargeting"]
        ELSE IF pindexLast > params.POSStartHeight
        THEN [nBits |-> PpcoinRetarget(NBits(pindexLast), nActualSpacing, 40,
                                       params.nHybridPosTargetSpacing,
                                       UintToArith256(params.posLimit)),
              path |-> "ppcoin"]
        \* control reaches the closing brace of a non-void function
        ELSE [nBits |-> 0, path |-> "no_return"]

(***************************************************************************)
(* GetNextWorkRequiredPivx                                                 *)
(***************************************************************************)

\* The loop of lines 220-246 from the state st before an iteration, st.i being
\* the loop counter: CountBlocks, the running average and the summed block-time
\* differences.
RECURSIVE PivxWindow(_)
PivxWindow(st) ==
    IF st.BlockReading = NULLPTR \/ st.BlockReading <= 0 \/ st.i > 24
    THEN st
    ELSE LET n == st.CountBlocks + 1
             avg == IF n = 1 THEN Decode(NBits(st.BlockReading))
                    ELSE DivSmall(Add(MulSmall(st.PastDifficultyAverage, n),
                                      Decode(NBits(st.BlockReading))),
                                  n + 1)
             span == IF st.LastBlockTime > 0
                     THEN st.nActualTimespan
                              + (st.LastBlockTime - GetBlockTime(st.BlockReading))
                     ELSE st.nActualTimespan
             after == [BlockReading |-> st.BlockReading, i |-> st.i, CountBlocks |-> n,
                       PastDifficultyAverage |-> avg,
                       LastBlockTime |-> GetBlockTime(st.BlockReading),
                       nActualTimespan |-> span]
         IN  IF Pprev(st.BlockReading) = NULLPTR
             THEN after
             ELSE PivxWindow([after EXCEPT !.BlockReading = Pprev(st.BlockReading),
                                           !.i = st.i + 1])

\* Mutant: the ppcoin retarget starts at POSStartHeight itself.
GetNextWorkRequiredPivxFromStart(pindexLast, fProofOfStake) ==
    LET bnTargetLimit == UintToArith256(IF fProofOfStake THEN params.posLimit
                                        ELSE params.powLimit)
        nActualSpacing == IF pindexLast # 0
                          THEN GetBlockTime(pindexLast) - GetBlockTime(Pprev(pindexLast))
                          ELSE 0
        w == PivxWindow([BlockReading |-> pindexLast, i |-> 1, CountBlocks |-> 0,
                         PastDifficultyAverage |-> U256(0), LastBlockTime |-> 0,
                         nActualTimespan |-> 0])
        nTargetTimespan == w.CountBlocks * params.nPosTargetSpacing
        nActualTimespan == Min(Max(w.nActualTimespan, CDiv(nTargetTimespan, 3)),
                               nTargetTimespan * 3)
        bnNew == DivSmall(MulSmall(w.PastDifficultyAverage, nActualTimespan),
                          nTargetTimespan)
    IN  IF params.fPowNoRetargeting
        THEN [nBits |-> NBits(pindexLast), path |-> "no_retargeting"]
        ELSE IF \/ pindexLast = NULLPTR
                \/ pindexLast = 0
                \/ pindexLast < params.DGWDifficultyStartHeight + 24
        THEN [nBits |-> GetCompact(UintToArith256(params.powLimit)), path |-> "ceiling"]
        ELSE IF pindexLast >= params.POSStartHeight
        THEN [nBits |-> PpcoinRetarget(NBits(pindexLast), nActualSpacing, (60 * 40) \div 60,
                                       60, bnTargetLimit),
              path |-> "ppcoin"]
        ELSE IF params.strNetworkID = "test" /\ pindexLast + 3 > params.POSStartHeight
        THEN [nBits |-> PpcoinRetarget(NBits(pindexLast), nActualSpacing, (60 * 40) \div 60,
                                       60, UintToArith256(params.posLimit)),
              path |-> "ppcoin_testnet"]
        ELSE [nBits |-> GetCompact(IF Gt(bnNew, bnTargetLimit) THEN bnTargetLimit
                                   ELSE bnNew),
              path |-> "windowed"]

GetNextWorkRequiredPivx(pindexLast, fProofOfStake) ==
    LET bnTargetLimit == UintToArith256(IF fProofOfStake THEN params.posLimit
                                        ELSE params.powLimit)
        nActualSpacing == IF pindexLast # 0
                          THEN GetBlockTime(pindexLast) - GetBlockTime(Pprev(pindexLast))
                          ELSE 0
        w == PivxWindow([BlockReading |-> pindexLast, i |-> 1, CountBlocks |-> 0,
                         PastDifficultyAverage |-> U256(0), LastBlockTime |-> 0,
                         nActualTimespan |-> 0])
        nTargetTimespan == w.CountBlocks * params.nPosTargetSpacing
        nActualTimespan == Min(Max(w.nActualTimespan, CDiv(nTargetTimespan, 3)),
                               nTargetTimespan * 3)
        bnNew == DivSmall(MulSmall(w.PastDifficultyAverage, nActualTimespan),
                          nTargetTimespan)
    IN  IF params.fPowNoRetargeting
        THEN [nBits |-> NBits(pindexLast), path |-> "no_retargeting"]
        ELSE IF \/ pindexLast = NULLPTR
                \/ pindexLast = 0
                \/ pindexLast < params.DGWDifficultyStartHeight + 24
        THEN [nBits |-> GetCompact(UintToArith256(params.powLimit)), path |-> "ceiling"]
        ELSE IF pindexLast > params.POSStartHeight
        THEN [nBits |-> PpcoinRetarget(NBits(pindexLast), nActualSpacing, (60 * 40) \div 60,
                                       60, bnTargetLimit),
              path |-> "ppcoin"]
        ELSE IF params.strNetworkID = "test" /\ pindexLast + 3 > params.POSStartHeight
        THEN [nBits |-> PpcoinRetarget(NBits(pindexLast), nActualSpacing, (60 * 40) \div 60,
                                       60, UintToArith256(params.posLimit)),
              path |-> "ppcoin_testnet"]
        ELSE [nBits |-> GetCompact(IF Gt(bnNew, bnTargetLimit) THEN bnTargetLimit
                                   ELSE bnNew),
              path |-> "windowed"]

(***************************************************************************)
(* avgRecentTimestamps and GetNextWorkRequiredMidas                        *)
(***************************************************************************)

\* The sum of the first n block intervals the loop of lines 279-296 adds,
\* reading back from pindexLast whose time is blocktime; past the genesis
\* block every interval is nPosTargetSpacing.
RECURSIVE SumIntervals(_, _, _)
SumIntervals(pindexLast, blocktime, n) ==
    IF n = 0 THEN 0
    ELSE IF pindexLast # NULLPTR /\ Pprev(pindexLast) # NULLPTR
    THEN (blocktime - GetBlockTime(Pprev(pindexLast)))
             + SumIntervals(Pprev(pindexLast), GetBlockTime(Pprev(pindexLast)), n - 1)
    ELSE params.nPosTargetSpacing
             + SumIntervals(pindexLast, blocktime - params.nPosTargetSpacing, n - 1)

avgRecentTimestamps(pindexLast) ==
    LET blocktime == IF pindexLast # NULLPTR THEN GetBlockTime(pindexLast) ELSE 0
    IN  [avgOf5 |-> CDiv(SumIntervals(pindexLast, blocktime, 5), 5),
         avgOf7 |-> CDiv(SumIntervals(pindexLast, blocktime, 7), 7),
         avgOf9 |-> CDiv(SumIntervals(pindexLast, blocktime, 9), 9),
         avgOf17 |-> CDiv(SumIntervals(pindexLast, blocktime, 17), 17)]

\* Lines 333-349: the interval the regulation aims at.
MidasIntervalDesired(pindexLast) ==
    LET nSpacing == params.nPosTargetSpacingMidas
        nTimespan == params.nPosTargetTimespanMidas
        nFastInterval == CDiv(nSpacing * 9, 10)
        nSlowInterval == CDiv(nSpacing * 11, 10)
        now == GetBlockTime(pindexLast)
        BlockHeightTime == GenesisTime + pindexLast * nSpacing
    IN  IF now < BlockHeightTime + nTimespan /\ now > BlockHeightTime
        THEN CDiv((nTimespan - (now - BlockHeightTime)) * nSpacing
                      + (now - BlockHeightTime) * nFastInterval,
                  nSpacing)
        ELSE IF now + nTimespan > BlockHeightTime /\ now < BlockHeightTime
        THEN CDiv((nTimespan - (BlockHeightTime - now)) * nSpacing
                      + (BlockHeightTime - now) * nSlowInterval,
                  nTimespan)
        ELSE IF now < BlockHeightTime THEN nSlowInterval
        ELSE nFastInterval

\* Lines 361-389: which adjustment applies and the difficulty factor it gives
\* (divisor = 0: the 1/6-weighted adjustment divides by zero).
MidasFactor(avg, nIntervalDesired) ==
    LET toofast == CDiv(nIntervalDesired * 2, 3)
        tooslow == CDiv(nIntervalDesired * 3, 2)
        divisor == avg.avgOf17 + 5 * nIntervalDesired
        branch ==
            IF avg.avgOf5 < toofast /\ avg.avgOf9 < toofast /\ avg.avgOf17 < toofast
            THEN "emergency_slow"
            ELSE IF avg.avgOf5 > tooslow /\ avg.avgOf7 > tooslow /\ avg.avgOf9 > tooslow
            THEN "emergency_fast"
            ELSE IF \/ /\ (avg.avgOf5 > nIntervalDesired \/ avg.avgOf7 > nIntervalDesired)
                       /\ avg.avgOf9 > nIntervalDesired
                       /\ avg.avgOf17 > nIntervalDesired
                    \/ /\ (avg.avgOf5 < nIntervalDesired \/ avg.avgOf7 < nIntervalDesired)
                       /\ avg.avgOf9 < nIntervalDesired
                       /\ avg.avgOf17 < nIntervalDesired
            THEN "normal"
            ELSE "none"
        raw == IF branch = "emergency_slow" THEN CDiv(10000 * 8, 5)
               ELSE IF branch = "emergency_fast" THEN CDiv(10000 * 5, 8)
               ELSE IF branch = "normal" /\ divisor # 0
               THEN CDiv(10000 * (6 * nIntervalDesired), divisor)
               ELSE 10000
    IN  [branch |-> branch, divisor |-> divisor,
         difficultyfactor |-> Max(Min(raw, 20000), 5000)]

\* Mutant: the neutral factor is applied like any other (no early return).
GetNextWorkRequiredMidasRecomputed(pindexLast, fProofOfStake) ==
    LET bnTargetLimit == UintToArith256(IF fProofOfStake THEN params.posLimit
                                        ELSE params.powLimit)
        nIntervalDesired == MidasIntervalDesired(pindexLast)
        avg == avgRecentTimestamps(pindexLast)
        f == MidasFactor(avg, nIntervalDesired)
        bnOld == Decode(NBits(pindexLast))
        bnNew == MulSmall(DivSmall(bnOld, f.difficultyfactor), 10000)
        locals == [nIntervalDesired |-> nIntervalDesired, avg |-> avg,
                   branch |-> f.branch, divisor |-> f.divisor]
    IN  IF pindexLast = NULLPTR
        THEN [nBits |-> GetCompact(bnTargetLimit), path |-> "ceiling"]
        ELSE IF f.branch = "normal" /\ f.divisor = 0
        THEN [nBits |-> 0, path |-> "division_by_zero", midas |-> locals]
        ELSE [nBits |-> GetCompact(IF Gt(bnNew, bnTargetLimit) THEN bnTargetLimit
                                   ELSE bnNew),
              path |-> IF f.difficultyfactor = 10000 THEN "neutral" ELSE "adjusted",
              midas |-> locals]

GetNextWorkRequiredMidas(pindexLast, fProofOfStake) ==
    LET bnTargetLimit == UintToArith256(IF fProofOfStake THEN params.posLimit
                                        ELSE params.powLimit)
        nIntervalDesired == MidasIntervalDesired(pindexLast)
        avg == avgRecentTimestamps(pindexLast)
        f == MidasFactor(avg, nIntervalDesired)
        bnOld == Decode(NBits(pindexLast))
        bnNew == MulSmall(DivSmall(bnOld, f.difficultyfactor), 10000)
        locals == [nIntervalDesired |-> nIntervalDesired, avg |-> avg,
                   branch |-> f.branch, divisor |-> f.divisor]
    IN  IF pindexLast = NULLPTR
        THEN [nBits |-> GetCompact(bnTargetLimit), path |-> "ceiling"]
        ELSE IF f.branch = "normal" /\ f.divisor = 0
        \* integer division by zero at line 383
        THEN [nBits |-> 0, path |-> "division_by_zero", midas |-> locals]
        ELSE IF f.difficultyfactor = 10000
        THEN [nBits |-> GetCompact(bnOld), path |-> "neutral", midas |-> locals]
        ELSE [nBits |-> GetCompact(IF Gt(bnNew, bnTargetLimit) THEN bnTargetLimit
                                   ELSE bnNew),
              path |-> "adjusted", midas |-> locals]

(***************************************************************************)
(* IsProofOfStakeHeight and GetNextWorkRequiredOrig                        *)
(***************************************************************************)

\* The inclusive height ranges of lines 461-499 (main network only).
MainStakeRanges ==
    { <<455, 479>>, <<481, 489>>, <<492, 492>>, <<501, 501>>, <<691, 691>>,
      <<702, 703>>, <<721, 721>>, <<806, 811>>, <<876, 876>>, <<889, 889>>,
      <<907, 907>>, <<913, 914>>, <<916, 929>>, <<931, 931>>, <<933, 942>>,
      <<945, 947>>, <<949, 960>>, <<962, 962>>, <<969, 969>>, <<991, 991>> }

IsProofOfStakeHeight(nHeight) ==
    IF nHeight >= params.POSStartHeight THEN TRUE
    ELSE IF params.strNetworkID = "main"
    THEN \E r \in MainStakeRanges : nHeight >= r[1] /\ nHeight <= r[2]
    ELSE FALSE

\* The scans of lines 421-422 and 426-427: back to the first block whose height
\* has the wanted type, stopping at the genesis block whatever its type.
RECURSIVE OrigScan(_, _)
OrigScan(pindex, fProofOfStake) ==
    IF /\ pindex # NULLPTR
       /\ Pprev(pindex) # NULLPTR
       /\ IsProofOfStakeHeight(pindex) # fProofOfStake
    THEN OrigScan(Pprev(pindex), fProofOfStake)
    ELSE pindex

\* Mutant: the spacing is capped at 10 x 64 whatever the type produced.
GetNextWorkRequiredOrigCappedAlike(pindexLast, fProofOfStake) ==
    LET bnTargetLimit == IF fProofOfStake /\ params.strNetworkID = "main"
                         THEN Ceiling(2, 15)
                         ELSE UintToArith256(params.powLimit)
        pindexPrev == OrigScan(pindexLast, fProofOfStake)
        pindexPrevPrev == OrigScan(Pprev(pindexPrev), fProofOfStake)
        nSpacing == GetBlockTime(pindexPrev) - GetBlockTime(pindexPrevPrev)
        nActualSpacing == IF nSpacing < 0 THEN 64
                          ELSE IF nSpacing > 64 * 10 THEN 64 * 10
                          ELSE nSpacing
        nInterval == IF fProofOfStake THEN 10 ELSE 10
        bnNew == DivSmall(MulSmall(Decode(NBits(pindexPrev)),
                                   (nInterval - 1) * 64 + nActualSpacing + nActualSpacing),
                          (nInterval + 1) * 64)
    IN  IF params.fPowNoRetargeting
        THEN [nBits |-> NBits(pindexLast), path |-> "no_retargeting"]
        ELSE IF pindexLast = NULLPTR \/ pindexPrev = NULLPTR \/ pindexPrevPrev = NULLPTR
        THEN [nBits |-> GetCompact(bnTargetLimit), path |-> "ceiling"]
        ELSE [nBits |-> GetCompact(IF IsZero(bnNew) \/ Gt(bnNew, bnTargetLimit)
                                   THEN bnTargetLimit
                                   ELSE bnNew),
              path |-> "retarget",
              orig |-> [pindexPrev |-> pindexPrev, pindexPrevPrev |-> pindexPrevPrev,
                        nActualSpacing |-> nActualSpacing]]

\* Mutant: the actual spacing is counted once in the numerator.
GetNextWorkRequiredOrigSingleSpacing(pindexLast, fProofOfStake) ==
    LET bnTargetLimit == IF fProofOfStake /\ params.strNetworkID = "main"
                         THEN Ceiling(2, 15)
                         ELSE UintToArith256(params.powLimit)
        pindexPrev == OrigScan(pindexLast, fProofOfStake)
        pindexPrevPrev == OrigScan(Pprev(pindexPrev), fProofOfStake)
        nSpacing == GetBlockTime(pindexPrev) - GetBlockTime(pindexPrevPrev)
        nActualSpacing == IF nSpacing < 0 THEN 64
                          ELSE IF fProofOfStake /\ nSpacing > 64 * 10 THEN 64 * 10
                          ELSE nSpacing
        nInterval == IF fProofOfStake THEN 10 ELSE 10
        bnNew == DivSmall(MulSmall(Decode(NBits(pindexPrev)),
                                   (nInterval - 1) * 64 + nActualSpacing),
                          (nInterval + 1) * 64)
    IN  IF params.fPowNoRetargeting
        THEN [nBits |-> NBits(pindexLast), path |-> "no_retargeting"]
        ELSE IF pindexLast = NULLPTR \/ pindexPrev = NULLPTR \/ pindexPrevPrev = NULLPTR
        THEN [nBits |-> GetCompact(bnTargetLimit), path |-> "ceiling"]
        ELSE [nBits |-> GetCompact(IF IsZero(bnNew) \/ Gt(bnNew, bnTargetLimit)
                                   THEN bnTargetLimit
                                   ELSE bnNew),
              path |-> "retarget",
              orig |-> [pindexPrev |-> pindexPrev, pindexPrevPrev |-> pindexPrevPrev,
                        nActualSpacing |-> nActualSpacing]]

GetNextWorkRequiredOrig(pindexLast, fProofOfStake) ==
    LET bnTargetLimit == IF fProofOfStake /\ params.strNetworkID = "main"
                         THEN Ceiling(2, 15)
                         ELSE UintToArith256(params.powLimit)
        pindexPrev == OrigScan(pindexLast, fProofOfStake)
        pindexPrevPrev == OrigScan(Pprev(pindexPrev), fProofOfStake)
        nSpacing == GetBlockTime(pindexPrev) - GetBlockTime(pindexPrevPrev)
        nActualSpacing == IF nSpacing < 0 THEN 64
                          ELSE IF fProofOfStake /\ nSpacing > 64 * 10 THEN 64 * 10
                          ELSE nSpacing
        nInterval == IF fProofOfStake THEN 10 ELSE 10
        bnNew == DivSmall(MulSmall(Decode(NBits(pindexPrev)),
                                   (nInterval - 1) * 64 + nActualSpacing + nActualSpacing),
                          (nInterval + 1) * 64)
    IN  IF params.fPowNoRetargeting
        THEN [nBits |-> NBits(pindexLast), path |-> "no_retargeting"]
        ELSE IF pindexLast = NULLPTR \/ pindexPrev = NULLPTR \/ pindexPrevPrev = NULLPTR
        THEN [nBits |-> GetCompact(bnTargetLimit), path |-> "ceiling"]
        ELSE [nBits |-> GetCompact(IF IsZero(bnNew) \/ Gt(bnNew, bnTargetLimit)
                                   THEN bnTargetLimit
                                   ELSE bnNew),
              path |-> "retarget",
              orig |-> [pindexPrev |-> pindexPrev, pindexPrevPrev |-> pindexPrevPrev,
                        nActualSpacing |-> nActualSpacing]]

(***************************************************************************)
(* GetNextWorkRequired and CheckProofOfWork                                *)
(***************************************************************************)

\* Mutant: every era threshold is compared with the new block's height.
SelectAlgorithmNewHeight(pindexLast, fHybridPow) ==
    LET nHeight == pindexLast + 1
        fProofOfStake == IsProofOfStakeHeight(nHeight)
    IN  IF pindexLast < params.nMinimumDifficultyBlocks
        THEN [algo |-> "MinimumDifficulty", fProofOfStake |-> fProofOfStake]
        ELSE IF nHeight >= params.POSPOWStartHeight
        THEN [algo |-> IF fHybridPow THEN "HybridPoW" ELSE "HybridPoS",
              fProofOfStake |-> fProofOfStake]
        ELSE IF nHeight >= params.DGWDifficultyStartHeight
        THEN [algo |-> "Pivx", fProofOfStake |-> fProofOfStake]
        ELSE IF nHeight >= params.MidasStartHeight
        THEN [algo |-> "Midas", fProofOfStake |-> fProofOfStake]
        ELSE [algo |-> "Orig", fProofOfStake |-> fProofOfStake]

\* The retarget function the dispatcher calls and the block type it passes on.
SelectAlgorithm(pindexLast, fHybridPow) ==
    LET nHeight == pindexLast + 1
        fProofOfStake == IsProofOfStakeHeight(nHeight)
    IN  IF pindexLast < params.nMinimumDifficultyBlocks
        THEN [algo |-> "MinimumDifficulty", fProofOfStake |-> fProofOfStake]
        ELSE IF nHeight >= params.POSPOWStartHeight
        THEN [algo |-> IF fHybridPow THEN "HybridPoW" ELSE "HybridPoS",
              fProofOfStake |-> fProofOfStake]
        ELSE IF pindexLast >= params.DGWDifficultyStartHeight
        THEN [algo |-> "Pivx", fProofOfStake |-> fProofOfStake]
        ELSE IF pindexLast >= params.MidasStartHeight
        THEN [algo |-> "Midas", fProofOfStake |-> fProofOfStake]
        ELSE [algo |-> "Orig", fProofOfStake |-> fProofOfStake]

GetNextWorkRequired(pindexLast, fHybridPow) ==
    LET sel == SelectAlgorithm(pindexLast, fHybridPow)
    IN  [algo |-> sel.algo,
         fProofOfStake |-> sel.fProofOfStake,
         res |-> CASE sel.algo = "MinimumDifficulty" ->
                        [nBits |-> GetCompact(UintToArith256(params.powLimit)),
                         path |-> "ceiling"]
                   [] sel.algo = "HybridPoW" -> HybridPoWDarkGravityWave(pindexLast)
                   [] sel.algo = "HybridPoS" -> HybridPoSPIVXDifficulty(pindexLast)
                   [] sel.algo = "Pivx" ->
                        GetNextWorkRequiredPivx(pindexLast, sel.fProofOfStake)
                   [] sel.algo = "Midas" ->
                        GetNextWorkRequiredMidas(pindexLast, sel.fProofOfStake)
                   [] sel.algo = "Orig" ->
                        GetNextWorkRequiredOrig(pindexLast, sel.fProofOfStake)]

\* Mutant: a hash equal to the target is rejected.
CheckProofOfWorkStrict(hash, nBits) ==
    LET t == SetCompact(nBits)
    IN  IF t.fNegative \/ IsZero(t.val) \/ t.fOverflow
              \/ Gt(t.val, UintToArith256(params.powLimit))
        THEN FALSE
        ELSE IF ~Gt(t.val, hash) THEN FALSE
        ELSE TRUE

CheckProofOfWork(hash, nBits) ==
    LET t == SetCompact(nBits)
    IN  IF t.fNegative \/ IsZero(t.val) \/ t.fOverflow
              \/ Gt(t.val, UintToArith256(params.powLimit))
        THEN FALSE
        ELSE IF Gt(hash, t.val) THEN FALSE
        ELSE TRUE

(***************************************************************************)
(* Inputs: consensus parameter sets and chains.                            *)
(***************************************************************************)

\* Packed targets blocks carry: canonical encodings (what GetCompact returns).
BitsPowLimit == Compact(30, 1048575)      \* 0x1e0fffff

BitsPosLimit == Compact(30, 65535)        \* 0x1e00ffff

BitsHybridLimit == Compact(29, 1048575)   \* 0x1d0fffff

BitsMid == Compact(27, 1193984)           \* 0x1b123400

BitsLow == Compact(2, 65536)              \* 0x02010000: the target 256

\* A parameter set in the style of the main network, every era threshold out of
\* reach; the families below lower the thresholds they are about.
BaseParams ==
    [powLimit |-> Limit(2, 15),
     posLimit |-> Limit(3, 255),
     hybridPowLimit |-> Limit(3, 15),
     strNetworkID |-> "main",
     nMinimumDifficultyBlocks |-> 0,
     MidasStartHeight |-> 1000,
     DGWDifficultyStartHeight |-> 2000,
     POSPOWStartHeight |-> 3000,
     POSStartHeight |-> 3,
     fPowNoRetargeting |-> FALSE,
     fPowAllowMinDifficultyBlocks |-> FALSE,
     nPowTargetSpacing |-> 60,
     nPosTargetSpacing |-> 60,
     nPosTargetSpacingMidas |-> 60,
     nPosTargetTimespanMidas |-> 600,
     nHybridPowTargetSpacing |-> 120,
     nHybridPosTargetSpacing |-> 120]

\* The genesis block's time.
GenesisBlockTime == 100000

\* A chain of len blocks, dt seconds apart, with the packed target bits; the
\* blocks at the heights in stk are staking blocks; from height devh on the
\* times are shifted by shift; the block at height oddh has the packed target
\* oddbits and its time is off by spike.
MakeChain(r) ==
    [i \in 1..r.len |->
        LET h == i - 1
        IN  [nTime |-> GenesisBlockTime + h * r.dt
                           + (IF r.devh > 0 /\ h >= r.devh THEN r.shift ELSE 0)
                           + (IF h = r.oddh THEN r.spike ELSE 0),
             nBits |-> IF h = r.oddh THEN r.oddbits ELSE r.bits,
             fStake |-> h \in r.stk]]

Recipe(len, dt, bits, stk, devh, shift, oddh, spike, oddbits) ==
    [len |-> len, dt |-> dt, bits |-> bits, stk |-> stk, devh |-> devh,
     shift |-> shift, oddh |-> oddh, spike |-> spike, oddbits |-> oddbits]

\* Largest chain enumerated with every pattern of staking blocks.
MaxWalkLen == 5

\* Largest chain of the legacy-era family.
MaxLegacyLen == 7

AllHeights(len) == 0..(len - 1)

\* Every n-th height of a chain of len blocks, starting at height from.
Every(n, from, len) == { h \in from..(len - 1) : (h - from) % n = 0 }

\* Short chains with every pattern of staking blocks, in the hybrid era.
WalkerInputs ==
    { [p |-> [BaseParams EXCEPT !.POSPOWStartHeight = 1, !.MidasStartHeight = 0,
                                !.DGWDifficultyStartHeight = 0],
       r |-> Recipe(len, 120, BitsMid, stk, 0, 0, NULLPTR, 0, BitsMid)] :
        len \in 1..MaxWalkLen, stk \in SUBSET (0..(MaxWalkLen - 1)) }

\* Legacy era: heights from POSStartHeight = 3 on are proof of stake; one block
\* may carry another target and a time off the schedule.
LegacyInputs ==
    { [p |-> [BaseParams EXCEPT !.strNetworkID = net],
       r |-> Recipe(len, 64, BitsMid, {}, 0, 0, oddh, spike, oddbits)] :
        net \in {"main", "test"}, len \in 1..MaxLegacyLen,
        oddh \in NULLPTR..(MaxLegacyLen - 1), spike \in {0 - 100, 0, 700},
        oddbits \in {BitsMid, BitsPosLimit} }

\* Longest chain of the family below: its tip is the proof-of-work height 480
\* between the proof-of-stake ranges 455-479 and 481-489 of the main network.
MaxTableLen == 482

\* Legacy era on the main network around height 480, POSStartHeight out of
\* reach; the block at height 479 or 480 may carry another target.
LegacyTableInputs ==
    { [p |-> [BaseParams EXCEPT !.POSStartHeight = 4000],
       r |-> Recipe(len, 64, BitsMid, {}, 0, 0, oddh, 0, BitsPosLimit)] :
        len \in (MaxTableLen - 2)..MaxTableLen,
        oddh \in {NULLPTR, MaxTableLen - 3, MaxTableLen - 2} }

\* Midas era from the genesis block on.
MidasInputs ==
    { [p |-> [BaseParams EXCEPT !.MidasStartHeight = 0],
       r |-> Recipe(len, dt, bits, {}, dev[1], dev[2], odd[1], odd[2], bits)] :
        len \in {1, 3, 19, 20}, dt \in {54, 60, 66}, bits \in {BitsMid, BitsLow},
        dev \in {<<0, 0>>, <<1, 0 - 50>>, <<1, 700>>},
        odd \in {<<NULLPTR, 0>>, <<1, 6103>>, <<2, 6103>>} }

\* Averaged-window era from height 1 on, around POSStartHeight = 26 and far
\* below POSStartHeight = 100.
DgwInputs ==
    { [p |-> [BaseParams EXCEPT !.MidasStartHeight = 0, !.DGWDifficultyStartHeight = 1,
                                !.POSStartHeight = pos, !.strNetworkID = net],
       r |-> Recipe(len, dt, bits, {}, 0, 0, oddh, 0, BitsPosLimit)] :
        pos \in {3, 26, 100}, net \in {"main", "test"}, len \in {5, 25, 26, 27, 28},
        dt \in {20, 60, 200}, bits \in {BitsMid, BitsLow}, oddh \in {NULLPTR, 5, 20} }

\* Hybrid era from height 1 on: no, only, or alternating staking blocks.
HybridInputs ==
    { [p |-> [BaseParams EXCEPT !.MidasStartHeight = 0, !.DGWDifficultyStartHeight = 0,
                                !.POSPOWStartHeight = 1, !.POSStartHeight = pos,
                                !.fPowAllowMinDifficultyBlocks = fMin],
       r |-> Recipe(len, dt, BitsMid, stk, 0, 0, odd[1], odd[2], BitsHybridLimit)] :
        pos \in {0, 100}, fMin \in BOOLEAN, len \in {2, 26, 27, 52}, dt \in {30, 150},
        stk \in {{}, Every(1, 1, 52), Every(2, 1, 52), Every(2, 2, 52)},
        odd \in {<<NULLPTR, 0>>, <<25, 0>>, <<25, 8000>>, <<51, 8000>>} }

BitsRegtestLimit == Compact(32, 8388607)  \* 0x207fffff

\* Retargeting disabled: every block carries the genesis block's target; the
\* last parameter set has the regression-test ceiling 7fff...ff.
NoRetargetingInputs ==
    { [p |-> [q.p EXCEPT !.fPowNoRetargeting = TRUE],
       r |-> Recipe(len, 60, q.bits, stk, 0, 0, NULLPTR, 0, q.bits)] :
        q \in { [p |-> BaseParams, bits |-> BitsMid],
                [p |-> [BaseParams EXCEPT !.MidasStartHeight = 0,
                                          !.DGWDifficultyStartHeight = 1],
                 bits |-> BitsMid],
                [p |-> [BaseParams EXCEPT !.MidasStartHeight = 0,
                                          !.DGWDifficultyStartHeight = 0,
                                          !.POSPOWStartHeight = 1],
                 bits |-> BitsMid],
                [p |-> [BaseParams EXCEPT !.powLimit = Limit(0, 127),
                                          !.strNetworkID = "regtest"],
                 bits |-> BitsRegtestLimit] },
        len \in {2, 5, 27}, stk \in {{}, Every(2, 1, 27)} }

\* Largest chain of the minimum-difficulty family.
MaxDevLen == 5

\* Minimum-difficulty blocks (devnets): the first blocks get the PoW ceiling.
MinimumDifficultyInputs ==
    { [p |-> [BaseParams EXCEPT !.nMinimumDifficultyBlocks = 3, !.strNetworkID = "dev",
                                !.POSPOWStartHeight = pospow],
       r |-> Recipe(len, 64, BitsMid, {}, 0, 0, NULLPTR, 0, BitsMid)] :
        pospow \in {2, 3000}, len \in 1..MaxDevLen }

\* Largest chain of the family that crosses every era threshold.
MaxEraLen == 8

\* The eras two blocks apart: Midas from height 2, averaged window from 4,
\* hybrid from 6, with and without one minimum-difficulty block.
EraBoundaryInputs ==
    { [p |-> [BaseParams EXCEPT !.MidasStartHeight = 2, !.DGWDifficultyStartHeight = 4,
                                !.POSPOWStartHeight = 6, !.POSStartHeight = pos,
                                !.nMinimumDifficultyBlocks = nMin],
       r |-> Recipe(len, 60, BitsMid, {}, 0, 0, NULLPTR, 0, BitsMid)] :
        pos \in {3, 5}, nMin \in {0, 1}, len \in 1..MaxEraLen }

Inputs == WalkerInputs \cup LegacyInputs \cup MidasInputs \cup DgwInputs
              \cup HybridInputs \cup NoRetargetingInputs \cup MinimumDifficultyInputs
              \cup EraBoundaryInputs \cup LegacyTableInputs

(***************************************************************************)
(* The state machine: one call of a function of pow.cpp at a time.         *)
(***************************************************************************)

Idle == [fn |-> "none"]

\* What a build can do where the source has undefined behaviour: trap, or go
\* on with whatever the result register holds.
GarbageBits == {0, BitsPowLimit, Compact(127, 16777215)}

Undefined == {[status |-> "trapped", nBits |-> 0]}
                 \cup {[status |-> "returned", nBits |-> v] : v \in GarbageBits}

UndefinedPaths == {"no_return", "division_by_zero"}

\* Packed targets and hashes handed to CheckProofOfWork.
SampleBits == {BitsPowLimit, BitsMid, BitsLow, BitsRegtestLimit, Compact(30, 1048576),
               Compact(4, SignBit + 5), Compact(35, 1), Compact(5, 0)}

SampleHashes == {U256(0), Decode(BitsMid), Add(Decode(BitsMid), U256(1)),
                 Decode(BitsPowLimit), Ceiling(2, 15), Ceiling(0, 255)}

Init ==
    /\ \E in \in Inputs : params = in.p /\ chain = MakeChain(in.r)
    /\ call = Idle

\* GetNextWorkRequired(pindexLast = the tip, params, fHybridPow)
CallGetNextWorkRequired ==
    /\ call = Idle
    /\ \E fHybridPow \in BOOLEAN :
        LET r == GetNextWorkRequired(Tip, fHybridPow)
        IN  \E o \in (IF r.res.path \in UndefinedPaths THEN Undefined
                      ELSE {[status |-> "returned", nBits |-> r.res.nBits]}) :
                call' = [fn |-> "GetNextWorkRequired", pindexLast |-> Tip,
                         fHybridPow |-> fHybridPow, algo |-> r.algo,
                         fProofOfStake |-> r.fProofOfStake, res |-> r.res,
                         status |-> o.status, nBits |-> o.nBits]
    /\ UNCHANGED <<params, chain>>

\* GetHybridPrevIndex(pindex, fPos, nMinHeight)
CallGetHybridPrevIndex ==
    /\ call = Idle
    /\ Len(chain) <= MaxWalkLen
    /\ \E pindex \in NULLPTR..Tip, fPos \in BOOLEAN, nMinHeight \in 0..Len(chain) :
        call' = [fn |-> "GetHybridPrevIndex", pindex |-> pindex, fPos |-> fPos,
                 nMinHeight |-> nMinHeight,
                 ret |-> GetHybridPrevIndex(pindex, fPos, nMinHeight)]
    /\ UNCHANGED <<params, chain>>

\* CheckProofOfWork(hash, nBits, params)
CallCheckProofOfWork ==
    /\ call = Idle
    /\ \E hash \in SampleHashes, nBits \in SampleBits :
        call' = [fn |-> "CheckProofOfWork", hash |-> hash, nBits |-> nBits,
                 ret |-> CheckProofOfWork(hash, nBits)]
    /\ UNCHANGED <<params, chain>>

\* The call returns to its caller.
Return ==
    /\ call # Idle
    /\ call' = Idle
    /\ UNCHANGED <<params, chain>>

Next == \/ CallGetNextWorkRequired
        \/ CallGetHybridPrevIndex
        \/ CallCheckProofOfWork
        \/ Return

Spec == Init /\ [][Next]_vars

(***************************************************************************)
(* Claims.                                                                 *)
(***************************************************************************)

IsCall(fn) == call.fn = fn

Dispatched(algo) == IsCall("GetNextWorkRequired") /\ call.algo = algo

\* C1: the dispatcher resolves in this order: (a) previous height below
\* nMinimumDifficultyBlocks: the compact PoW ceiling; (b) new height at or above
\* POSPOWStartHeight: Hybrid PoW when producing PoW, Hybrid PoS otherwise;
\* (c) previous height at or above DGWDifficultyStartHeight: Averaged-Window;
\* (d) previous height at or above MidasStartHeight: Midas; (e) otherwise
\* Legacy Exponential; in (c)-(e) the block type passed on is
\* IsProofOfStakeHeight of the new height.
C1_DispatchOrder ==
    IsCall("GetNextWorkRequired") =>
        LET prev == call.pindexLast
            new == call.pindexLast + 1
        IN  /\ call.algo =
                  (IF prev < params.nMinimumDifficultyBlocks THEN "MinimumDifficulty"
                   ELSE IF new >= params.POSPOWStartHeight
                   THEN (IF call.fHybridPow THEN "HybridPoW" ELSE "HybridPoS")
                   ELSE IF prev >= params.DGWDifficultyStartHeight THEN "Pivx"
                   ELSE IF prev >= params.MidasStartHeight THEN "Midas"
                   ELSE "Orig")
            /\ (call.algo = "MinimumDifficulty" =>
                    /\ call.status = "returned"
                    /\ call.nBits = GetCompact(UintToArith256(params.powLimit)))
            /\ (call.algo \in {"Pivx", "Midas", "Orig"} =>
                    call.fProofOfStake = IsProofOfStakeHeight(new))

\* C1 witness: the hybrid era is entered on the new block's height while the
\* previous block is still below POSPOWStartHeight and at or above the
\* averaged-window threshold.
C1_Witness ==
    /\ Dispatched("HybridPoS")
    /\ call.pindexLast + 1 = params.POSPOWStartHeight
    /\ call.pindexLast >= params.DGWDifficultyStartHeight
    /\ call.pindexLast >= params.nMinimumDifficultyBlocks

\* The ceiling the era of the dispatched call prescribes for the type produced.
EraCeiling ==
    UintToArith256(IF call.algo = "HybridPoW" THEN params.hybridPowLimit
                   ELSE IF call.algo = "HybridPoS" THEN params.posLimit
                   ELSE IF call.fProofOfStake THEN params.posLimit
                   ELSE params.powLimit)

RetargetReturned ==
    /\ IsCall("GetNextWorkRequired")
    /\ call.algo # "MinimumDifficulty"
    /\ call.res.path \notin UndefinedPaths

\* C2: the packed target returned by any retarget function reached through
\* GetNextWorkRequired decodes to a value that is non-zero, not negative and
\* not greater than the era's ceiling (powLimit for PoW, posLimit for PoS,
\* hybridPowLimit for hybrid-era PoW), the early-return and rescaling paths
\* included.
C2_ResultWithinCeiling ==
    RetargetReturned =>
        LET t == SetCompact(call.nBits)
        IN  /\ ~t.fNegative
            /\ ~IsZero(t.val)
            /\ Le(t.val, EraCeiling)

\* The non-staking blocks above POSPOWStartHeight up to the previous block.
HybridPowBlocks ==
    { h \in 0..call.pindexLast : ~IsStaking(h) /\ h > params.POSPOWStartHeight }

\* C3: a chain shorter than the 24-block window yields exactly the compact
\* ceiling: in Averaged-Window whenever the previous height is below
\* DGWDifficultyStartHeight + 24 the result is the ceiling of the type produced;
\* in Hybrid PoW whenever fewer than 24 PoW blocks exist above
\* POSPOWStartHeight the result is hybridPowLimit.
C3_ShortChainCeiling ==
    /\ Dispatched("Pivx") /\ call.pindexLast < params.DGWDifficultyStartHeight + 24
         => call.nBits = GetCompact(EraCeiling)
    /\ Dispatched("HybridPoW") /\ Cardinality(HybridPowBlocks) < 24
         => call.nBits = GetCompact(EraCeiling)

\* C4: CheckProofOfWork is true exactly when nBits decodes to a target that is
\* not negative, not zero, not overflowing and not above powLimit, and the hash
\* is at most that target.
C4_CheckProofOfWork ==
    IsCall("CheckProofOfWork") =>
        LET t == SetCompact(call.nBits)
            valid == /\ ~t.fNegative
                     /\ ~t.fOverflow
                     /\ ~IsZero(t.val)
                     /\ Le(t.val, UintToArith256(params.powLimit))
        IN  /\ call.ret = (valid /\ Le(call.hash, t.val))
            /\ (Gt(call.hash, t.val) => ~call.ret)
            /\ (valid /\ call.hash = t.val => call.ret)
            /\ (Gt(t.val, UintToArith256(params.powLimit)) => ~call.ret)

\* C4 witness: a hash equal to a valid target is accepted.
C4_Witness ==
    /\ IsCall("CheckProofOfWork")
    /\ call.hash = Decode(call.nBits)
    /\ call.ret

\* C5: GetHybridPrevIndex returns the nearest strict ancestor of start whose
\* type equals want_stake and whose height is at least min_height, and none
\* when start is absent or no such ancestor exists.
C5_HybridPrevIndex ==
    IsCall("GetHybridPrevIndex") =>
        LET matching == { h \in 0..Tip : /\ call.pindex # NULLPTR
                                         /\ h < call.pindex
                                         /\ IsStaking(h) = call.fPos
                                         /\ h >= call.nMinHeight }
        IN  IF matching = {} THEN call.ret = NULLPTR
            ELSE /\ call.ret \in matching
                 /\ \A h \in matching : h <= call.ret

\* C5 witness: the walker skips a block of the other type and returns an
\* ancestor above a positive min_height.
C5_Witness ==
    /\ IsCall("GetHybridPrevIndex")
    /\ call.ret # NULLPTR
    /\ call.ret < call.pindex - 1
    /\ call.nMinHeight > 0

\* The heights up to the previous block whose type is the type produced.
SameTypeHeights ==
    { h \in 0..call.pindexLast : IsProofOfStakeHeight(h) = call.fProofOfStake }

MaxOf(S) == CHOOSE h \in S : \A g \in S : g <= h

\* The nominal spacing of the legacy era, in seconds.
LegacySpacing == 64

\* The two most recent same-type blocks are the nominal spacing apart.
LegacyEquilibrium ==
    /\ Dispatched("Orig")
    /\ Cardinality(SameTypeHeights) >= 2
    /\ LET a == MaxOf(SameTypeHeights)
           b == MaxOf(SameTypeHeights \ {a})
       IN  GetBlockTime(a) - GetBlockTime(b) = LegacySpacing

\* C6: Legacy Exponential has no drift at equilibrium: when the two most recent
\* same-type blocks are the nominal spacing apart and the previous same-type
\* block's target is T, the returned target is T, for PoW and PoS production.
C6_LegacyNoDrift ==
    LegacyEquilibrium =>
        /\ call.status = "returned"
        /\ Decode(call.nBits) = Decode(NBits(MaxOf(SameTypeHeights)))

\* C6 witness: a PoS retarget at equilibrium where the previous block is of the
\* other type and carries another target than the previous same-type block.
C6_Witness ==
    /\ LegacyEquilibrium
    /\ call.fProofOfStake
    /\ call.res.path = "retarget"
    /\ call.res.orig.nActualSpacing = LegacySpacing
    /\ MaxOf(SameTypeHeights) < call.pindexLast
    /\ NBits(MaxOf(SameTypeHeights)) # NBits(call.pindexLast)

\* The four rolling averages all equal the desired interval.
MidasAveragesNeutral ==
    /\ Dispatched("Midas")
    /\ call.res.path # "ceiling"
    /\ \A a \in {call.res.midas.avg.avgOf5, call.res.midas.avg.avgOf7,
                 call.res.midas.avg.avgOf9, call.res.midas.avg.avgOf17} :
           a = call.res.midas.nIntervalDesired

\* C7: whenever the 5-, 7-, 9- and 17-block averages all equal the desired
\* interval, GetNextWorkRequiredMidas returns the previous block's nBits
\* unchanged.
C7_MidasNoOp ==
    MidasAveragesNeutral =>
        /\ call.status = "returned"
        /\ call.nBits = NBits(call.pindexLast)

\* C7 witness: the averages are taken over 17 real intervals (no padding) and
\* all equal the desired interval.
C7_Witness ==
    /\ MidasAveragesNeutral
    /\ call.pindexLast >= 17
    /\ call.res.path = "neutral"

\* C8: GetNextWorkRequiredMidas is total: whenever the 1/6-weighted branch is
\* taken its divisor avgOf17 + 5 * nIntervalDesired is not zero, and the
\* function returns a packed target.
C8_MidasTotal ==
    Dispatched("Midas") /\ call.pindexLast # NULLPTR =>
        /\ (call.res.midas.branch = "normal" => call.res.midas.divisor # 0)
        /\ call.res.path # "division_by_zero"
        /\ call.status = "returned"

\* C9: HybridPoSPIVXDifficulty returns an explicit packed target on every path
\* the dispatcher can reach: execution never falls off the end of the function.
C9_HybridPoSReturns ==
    Dispatched("HybridPoS") =>
        /\ call.res.path # "no_return"
        /\ call.status = "returned"
        /\ call.nBits = call.res.nBits

\* The averaged-window era: previous height at or above
\* DGWDifficultyStartHeight + 24, new height below POSPOWStartHeight,
\* retargeting enabled.
AveragedWindowEra ==
    /\ Dispatched("Pivx")
    /\ call.pindexLast >= params.DGWDifficultyStartHeight + 24
    /\ call.pindexLast + 1 < params.POSPOWStartHeight
    /\ ~params.fPowNoRetargeting

\* The running weighted mean avg = (avg * k + target_k) / (k + 1) over the
\* blocks read back from block p (avg = target_1 for k = 1), continued from
\* m = [k, avg], the mean after k blocks, up to 24 blocks.
RECURSIVE WindowMean(_, _)
WindowMean(p, m) ==
    IF m.k = 24 THEN m.avg
    ELSE WindowMean(p, [k |-> m.k + 1,
                        avg |-> DivSmall(Add(MulSmall(m.avg, m.k + 1),
                                             Decode(NBits(p - m.k))),
                                         m.k + 2)])

\* The windowed computation over the last 24 blocks: the mean times the actual
\* timespan clamped to [nominal / 3, nominal * 3], over the nominal timespan,
\* clamped to the ceiling.
WindowedTarget ==
    LET p == call.pindexLast
        nominal == 24 * params.nPosTargetSpacing
        actual == GetBlockTime(p) - GetBlockTime(p - 23)
        clamped == IF actual < nominal \div 3 THEN nominal \div 3
                   ELSE IF actual > nominal * 3 THEN nominal * 3
                   ELSE actual
        scaled == DivSmall(MulSmall(WindowMean(p, [k |-> 1, avg |-> Decode(NBits(p))]),
                                   clamped), nominal)
    IN  GetCompact(IF Gt(scaled, EraCeiling) THEN EraCeiling ELSE scaled)

\* The heights at which the code applies the single-step ppcoin retarget
\* instead of the window.
PpcoinHeights ==
    \/ call.pindexLast > params.POSStartHeight
    \/ params.strNetworkID = "test" /\ call.pindexLast + 3 > params.POSStartHeight

\* C10 (as stated): in the averaged-window era the result for PoW and PoS
\* production is the windowed computation and no other formula.
C10_WindowedEverywhere ==
    AveragedWindowEra => call.nBits = WindowedTarget

\* C10 (amended): in the averaged-window era the result is the windowed
\* computation when the previous height is at most POSStartHeight and, on the
\* test network, previous height + 3 is at most POSStartHeight.
C10_WindowedUpToPosStart ==
    AveragedWindowEra /\ ~PpcoinHeights => call.nBits = WindowedTarget

\* C10 witness: the window decides a proof-of-stake target at the last height
\* before the ppcoin retarget takes over, with the timespan clamped.
C10_Witness ==
    /\ AveragedWindowEra
    /\ call.pindexLast = params.POSStartHeight
    /\ call.fProofOfStake
    /\ call.res.path = "windowed"
    /\ GetBlockTime(call.pindexLast) - GetBlockTime(call.pindexLast - 23)
           < (24 * params.nPosTargetSpacing) \div 3

\* The ceiling of the legacy era: the literal 00000fff...ff for proof of stake
\* on the main network, powLimit otherwise.
LegacyCeiling ==
    IF call.fProofOfStake /\ params.strNetworkID = "main" THEN Ceiling(2, 15)
    ELSE UintToArith256(params.powLimit)

\* A legacy call with retargeting enabled and fewer than two blocks of the
\* type produced, walking back from the previous block.
LegacyShortOfSameType ==
    /\ Dispatched("Orig")
    /\ ~params.fPowNoRetargeting
    /\ Cardinality(SameTypeHeights) < 2

\* C11: Legacy Exponential falls back to the ceiling whenever fewer than two
\* same-type ancestors exist: it returns the compact ceiling and computes no
\* retarget from a block of the other type.
C11_LegacyFallback ==
    LegacyShortOfSameType =>
        /\ call.res.path = "ceiling"
        /\ call.nBits = GetCompact(LegacyCeiling)

\* A legacy call that evaluates the retarget formula.
LegacyRetarget == Dispatched("Orig") /\ call.res.path = "retarget"

\* The spacing measured between the two blocks the retarget reads.
LegacyMeasuredSpacing ==
    GetBlockTime(call.res.orig.pindexPrev) - GetBlockTime(call.res.orig.pindexPrevPrev)

\* new = old * ((N - 1) * nominal + 2 * actual) / ((N + 1) * nominal) with
\* N = 10, reset to the ceiling when zero or above the ceiling.
LegacyFormula(actual) ==
    LET old == Decode(NBits(call.res.orig.pindexPrev))
        new == DivSmall(MulSmall(old, 9 * LegacySpacing + 2 * actual),
                        11 * LegacySpacing)
    IN  GetCompact(IF IsZero(new) \/ Gt(new, LegacyCeiling) THEN LegacyCeiling
                   ELSE new)

\* C12 (as stated): the actual spacing used in the legacy retarget formula lies
\* in [0, 10 x nominal] for PoW and PoS production alike: a negative measured
\* spacing is replaced by the nominal spacing and one above 10 x nominal by
\* 10 x nominal.
C12_SpacingClampedAlike ==
    LegacyRetarget =>
        LET m == LegacyMeasuredSpacing
            actual == IF m < 0 THEN LegacySpacing
                      ELSE IF m > 10 * LegacySpacing THEN 10 * LegacySpacing
                      ELSE m
        IN  /\ call.res.orig.nActualSpacing \in 0..(10 * LegacySpacing)
            /\ call.nBits = LegacyFormula(actual)

\* C12 (amended): a negative measured spacing is replaced by the nominal
\* spacing for PoW and PoS production; a measured spacing above 10 x nominal is
\* replaced by 10 x nominal for PoS production only, so the spacing used lies
\* in [0, 10 x nominal] for PoS and is only non-negative for PoW.
C12_SpacingClampedForStake ==
    LegacyRetarget =>
        LET m == LegacyMeasuredSpacing
            actual == IF m < 0 THEN LegacySpacing
                      ELSE IF call.fProofOfStake /\ m > 10 * LegacySpacing
                      THEN 10 * LegacySpacing
                      ELSE m
        IN  /\ call.res.orig.nActualSpacing = actual
            /\ actual >= 0
            /\ (call.fProofOfStake => actual <= 10 * LegacySpacing)
            /\ call.nBits = LegacyFormula(actual)

\* C12 witness: a PoS retarget whose measured spacing is above 10 x nominal and
\* whose result stays below the ceiling.
C12_Witness ==
    /\ LegacyRetarget
    /\ call.fProofOfStake
    /\ LegacyMeasuredSpacing > 10 * LegacySpacing
    /\ call.res.orig.nActualSpacing = 10 * LegacySpacing
    /\ call.nBits # GetCompact(LegacyCeiling)

\* The hybrid PoW window decides the result.
HybridPowWindowed == Dispatched("HybridPoW") /\ call.res.path = "windowed"

\* The non-staking blocks above POSPOWStartHeight below height h.
HybridPowBelow(h) == { g \in HybridPowBlocks : g < h }

\* The running mean over the PoW blocks only, continued from m = [k, h, avg]:
\* the mean after k PoW blocks, the k-th being at height h, up to 24 blocks.
RECURSIVE PowOnlyMean(_)
PowOnlyMean(m) ==
    IF m.k = 24 THEN m
    ELSE LET g == MaxOf(HybridPowBelow(m.h))
         IN  PowOnlyMean([k |-> m.k + 1, h |-> g,
                          avg |-> DivSmall(Add(MulSmall(m.avg, m.k + 1),
                                               Decode(NBits(g))),
                                           m.k + 2)])

\* The 24 most recent PoW blocks above POSPOWStartHeight: their mean and the
\* height of the oldest of them.
PowOnlyWindow ==
    PowOnlyMean([k |-> 1, h |-> MaxOf(HybridPowBlocks),
                 avg |-> Decode(NBits(MaxOf(HybridPowBlocks)))])

\* The windowed result computed from those 24 blocks alone: their mean times
\* the timespan between the most recent and the oldest of them, clamped to
\* [nominal / 4, nominal * 4], over the nominal timespan, clamped to
\* hybridPowLimit.
PowOnlyTarget ==
    LET first == MaxOf(HybridPowBlocks)
        w == PowOnlyWindow
        nominal == 24 * params.nHybridPowTargetSpacing
        actual == GetBlockTime(first) - GetBlockTime(w.h)
        clamped == IF actual < nominal \div 4 THEN nominal \div 4
                   ELSE IF actual > nominal * 4 THEN nominal * 4
                   ELSE actual
        scaled == DivSmall(MulSmall(w.avg, clamped), nominal)
    IN  GetCompact(IF Gt(scaled, EraCeiling) THEN EraCeiling ELSE scaled)

\* C13: whenever the Hybrid PoW window produces the result, exactly 24 blocks
\* contribute, each a non-staking block above POSPOWStartHeight, the timespan
\* is measured between the most recent and the oldest of them, and no staking
\* block's target or time influences the result.
C13_WindowOfPowBlocksOnly ==
    HybridPowWindowed =>
        /\ Cardinality(HybridPowBlocks) >= 24
        /\ call.nBits = PowOnlyTarget

\* C13 witness: the window decides the result while a staking block with
\* another target and a time off the schedule lies between its PoW blocks.
C13_Witness ==
    /\ HybridPowWindowed
    /\ \E h \in 0..call.pindexLast :
           /\ IsStaking(h)
           /\ h < MaxOf(HybridPowBlocks)
           /\ h > PowOnlyWindow.h
           /\ NBits(h) # NBits(MaxOf(HybridPowBlocks))
           /\ GetBlockTime(h) > GetBlockTime(call.pindexLast)
====
